---- MODULE Spec2Model ----
(***************************************************************************)
(* Model of the demo move generator of main.go: the GADDAG built by        *)
(* addWordToGADDAG, and generateMoves with its helpers (findAnchors,       *)
(* generateMovesAtAnchor, traverseGADDAG, canPlaceWord, createMove,        *)
(* calculateScore).                                                        *)
(*                                                                         *)
(* Go strings are modelled as sequences of one-character strings, a board  *)
(* as a function row -> column -> cell over 0..14, where "" is an empty    *)
(* cell.  A GADDAG node is identified by the path of symbols that leads to *)
(* it from the root: the Go structure is a tree of maps, so a node and its *)
(* path determine each other.                                              *)
(***************************************************************************)
EXTENDS Integers, Sequences, FiniteSets, TLC

VARIABLES gaddag, lexicon, crossChecks, pc, rawBoard, board, rack, rackArr,
          anchors, idx, moves, moveSet, lastAnchorMoves, response,
          call, ret

vars == <<gaddag, lexicon, crossChecks, pc, rawBoard, board, rack, rackArr,
          anchors, idx, moves, moveSet, lastAnchorMoves, response,
          call, ret>>

(***************************************************************************)
(* Bounds of the model.                                                    *)
(***************************************************************************)
MaxWords == 2
MaxRack == 4
MaxOccupied == 2

(***************************************************************************)
(* Program constants.                                                      *)
(***************************************************************************)
BoardSize == 15
Center == 7

Range(s) == {s[i] : i \in 1..Len(s)}

RECURSIVE Reverse(_)
Reverse(s) == IF s = <<>> THEN <<>> ELSE Append(Reverse(Tail(s)), Head(s))

\* The letters of the blank loop if it ran on to the control symbol.
AZWithControl == <<"A","B","C","D","E","F","G","H","I","J","K","L","M",
                   "N","O","P","Q","R","S","T","U","V","W","X","Y","Z","^">>

AZ == <<"A","B","C","D","E","F","G","H","I","J","K","L","M",
        "N","O","P","Q","R","S","T","U","V","W","X","Y","Z">>

letterScores ==
  [l \in Range(AZ) |->
     CASE l \in {"A","E","I","L","N","O","R","S","T","U"} -> 1
       [] l \in {"D","G"} -> 2
       [] l \in {"B","C","M","P"} -> 3
       [] l \in {"F","H","V","W","Y"} -> 4
       [] l = "K" -> 5
       [] l \in {"J","X"} -> 8
       [] OTHER -> 10]

\* letterScores[tile.Letter] of a Go map: a missing key reads as 0.
LetterScore(l) == IF l \in DOMAIN letterScores THEN letterScores[l] ELSE 0

wordMultipliers == <<
  <<3, 1, 1, 1, 1, 1, 1, 3, 1, 1, 1, 1, 1, 1, 3>>,
  <<1, 2, 1, 1, 1, 1, 1, 1, 1, 1, 1, 1, 1, 2, 1>>,
  <<1, 1, 2, 1, 1, 1, 1, 1, 1, 1, 1, 1, 2, 1, 1>>,
  <<1, 1, 1, 2, 1, 1, 1, 1, 1, 1, 1, 2, 1, 1, 1>>,
  <<1, 1, 1, 1, 2, 1, 1, 1, 1, 1, 2, 1, 1, 1, 1>>,
  <<1, 1, 1, 1, 1, 1, 1, 1, 1, 1, 1, 1, 1, 1, 1>>,
  <<1, 1, 1, 1, 1, 1, 1, 1, 1, 1, 1, 1, 1, 1, 1>>,
  <<3, 1, 1, 1, 1, 1, 1, 2, 1, 1, 1, 1, 1, 1, 3>>,
  <<1, 1, 1, 1, 1, 1, 1, 1, 1, 1, 1, 1, 1, 1, 1>>,
  <<1, 1, 1, 1, 1, 1, 1, 1, 1, 1, 1, 1, 1, 1, 1>>,
  <<1, 1, 1, 1, 2, 1, 1, 1, 1, 1, 2, 1, 1, 1, 1>>,
  <<1, 1, 1, 2, 1, 1, 1, 1, 1, 1, 1, 2, 1, 1, 1>>,
  <<1, 1, 2, 1, 1, 1, 1, 1, 1, 1, 1, 1, 2, 1, 1>>,
  <<1, 2, 1, 1, 1, 1, 1, 1, 1, 1, 1, 1, 1, 2, 1>>,
  <<3, 1, 1, 1, 1, 1, 1, 3, 1, 1, 1, 1, 1, 1, 3>> >>

letterMultipliers == <<
  <<1, 1, 1, 2, 1, 1, 1, 1, 1, 1, 1, 2, 1, 1, 1>>,
  <<1, 1, 1, 1, 1, 3, 1, 1, 1, 3, 1, 1, 1, 1, 1>>,
  <<1, 1, 1, 1, 1, 1, 2, 1, 2, 1, 1, 1, 1, 1, 1>>,
  <<2, 1, 1, 1, 1, 1, 1, 2, 1, 1, 1, 1, 1, 1, 2>>,
  <<1, 1, 1, 1, 1, 1, 1, 1, 1, 1, 1, 1, 1, 1, 1>>,
  <<1, 3, 1, 1, 1, 1, 1, 1, 1, 1, 1, 1, 1, 3, 1>>,
  <<1, 1, 2, 1, 1, 1, 1, 1, 1, 1, 1, 1, 2, 1, 1>>,
  <<1, 1, 1, 2, 1, 1, 1, 1, 1, 1, 1, 2, 1, 1, 1>>,
  <<1, 1, 2, 1, 1, 1, 1, 1, 1, 1, 1, 1, 2, 1, 1>>,
  <<1, 3, 1, 1, 1, 1, 1, 1, 1, 1, 1, 1, 1, 3, 1>>,
  <<1, 1, 1, 1, 1, 1, 1, 1, 1, 1, 1, 1, 1, 1, 1>>,
  <<2, 1, 1, 1, 1, 1, 1, 2, 1, 1, 1, 1, 1, 1, 2>>,
  <<1, 1, 1, 1, 1, 1, 2, 1, 2, 1, 1, 1, 1, 1, 1>>,
  <<1, 1, 1, 1, 1, 3, 1, 1, 1, 3, 1, 1, 1, 1, 1>>,
  <<1, 1, 1, 2, 1, 1, 1, 1, 1, 1, 1, 2, 1, 1, 1>> >>

\* wordMultipliers[row][col] and letterMultipliers[row][col], 0-based.
WordMult(r, c) == wordMultipliers[r + 1][c + 1]
LetterMult(r, c) == letterMultipliers[r + 1][c + 1]

(***************************************************************************)
(* The GADDAG.  gaddag.nodes is the set of nodes (paths from the root),    *)
(* gaddag.terminal the nodes with IsTerminal = true.                       *)
(***************************************************************************)
Root == <<>>

EmptyGADDAG == [nodes |-> {Root}, terminal |-> {}]

\* child, exists := node.Children[letter]
HasChild(g, node, letter) == Append(node, letter) \in g.nodes
Child(node, letter) == Append(node, letter)

\* A child that is always created anew, dropping the subtree that was there.
EnsureChildOverwrite(g, current, letter) ==
  LET child == Append(current, letter)
      Below(p) == Len(p) >= Len(child) /\ SubSeq(p, 1, Len(child)) = child
  IN [nodes |-> {p \in g.nodes : ~Below(p)} \cup {child},
      terminal |-> {p \in g.terminal : ~Below(p)}]

\* if current.Children[letter] == nil { current.Children[letter] = &GADDAGNode{...} }
EnsureChild(g, current, letter) ==
  IF HasChild(g, current, letter)
  THEN g
  ELSE [g EXCEPT !.nodes = @ \cup {Append(current, letter)}]

\* Walk from `current` along `syms`, creating the missing children.
RECURSIVE AddPath(_, _, _)
AddPath(g, current, syms) ==
  IF syms = <<>>
  THEN g
  ELSE AddPath(EnsureChild(g, current, Head(syms)),
               Child(current, Head(syms)), Tail(syms))

\* One iteration of the loop of addWordToGADDAG, for the split index i.
AddSplit(g, word, i) ==
  LET prefix == SubSeq(word, 1, i)
      suffix == SubSeq(word, i + 1, Len(word))
      path == Reverse(prefix) \o <<"^">> \o suffix
      g1 == AddPath(g, Root, path)
  IN [g1 EXCEPT !.terminal = @ \cup {path}]

RECURSIVE AddSplitsFrom(_, _, _)
AddSplitsFrom(g, word, i) ==
  IF i > Len(word)
  THEN g
  ELSE AddSplitsFrom(AddSplit(g, word, i), word, i + 1)

addWordToGADDAG(g, word) == AddSplitsFrom(g, word, 0)


(***************************************************************************)
(* Board helpers.                                                          *)
(***************************************************************************)
Cells == 0..(BoardSize - 1)

EmptyBoard == [r \in Cells |-> [c \in Cells |-> ""]]

Directions == <<"horizontal", "vertical">>

\* rackCopy = append(rackCopy[:j], rackCopy[j+1:]...), j 1-based here.
RemoveAt(s, j) == SubSeq(s, 1, j - 1) \o SubSeq(s, j + 1, Len(s))

\* The first index j with rackTile == letter || rackTile == "?", 0 when none.
RECURSIVE FirstMatchFrom(_, _, _)
FirstMatchFrom(rackCopy, letter, j) ==
  IF j > Len(rackCopy) THEN 0
  ELSE IF rackCopy[j] = letter \/ rackCopy[j] = "?" THEN j
  ELSE FirstMatchFrom(rackCopy, letter, j + 1)

FirstMatch(rackCopy, letter) == FirstMatchFrom(rackCopy, letter, 1)

\* The cell of the i-th letter (0-based) of a word laid from (row, col).
CellRow(row, i, direction) == IF direction = "horizontal" THEN row ELSE row + i
CellCol(col, i, direction) == IF direction = "horizontal" THEN col + i ELSE col

RECURSIVE CanPlaceFrom(_, _, _, _, _, _, _)
CanPlaceFrom(b, word, row, col, direction, rackCopy, i) ==
  IF i >= Len(word) THEN TRUE
  ELSE
    LET r == CellRow(row, i, direction)
        c == CellCol(col, i, direction)
        letter == word[i + 1]
    IN IF (IF direction = "horizontal" THEN c ELSE r) >= BoardSize THEN FALSE
       ELSE IF b[r][c] = ""
            THEN LET j == FirstMatch(rackCopy, letter)
                 IN IF j = 0 THEN FALSE
                    ELSE CanPlaceFrom(b, word, row, col, direction,
                                      RemoveAt(rackCopy, j), i + 1)
            ELSE IF b[r][c] # letter THEN FALSE
                 ELSE CanPlaceFrom(b, word, row, col, direction, rackCopy, i + 1)

canPlaceWord(b, word, row, col, direction, rk) ==
  CanPlaceFrom(b, word, row, col, direction, rk, 0)

(***************************************************************************)
(* traverseGADDAG: the words appended to *words, in the order of the code. *)
(***************************************************************************)
RECURSIVE traverseGADDAG(_, _, _, _, _, _, _)
RECURSIVE TryBlank(_, _, _, _, _, _, _, _, _)
RECURSIVE TryRack(_, _, _, _, _, _, _, _)
RECURSIVE TryBoard(_, _, _, _, _, _, _, _)

\* for letter := 'A'; letter <= 'Z'; letter++, for the blank at index i:
\* `letters` are the letters of A..Z, in order, that node.Children has.
TryBlank(node, currentWord, b, rk, row, col, direction, i, letters) ==
  IF letters = <<>> THEN <<>>
  ELSE
    traverseGADDAG(Child(node, Head(letters)), Append(currentWord, Head(letters)),
                   b, RemoveAt(rk, i), row, col, direction)
    \o TryBlank(node, currentWord, b, rk, row, col, direction, i, Tail(letters))

\* for i, tile := range rack
TryRack(node, currentWord, b, rk, row, col, direction, i) ==
  IF i > Len(rk) THEN <<>>
  ELSE
    (IF rk[i] = "?"
     THEN TryBlank(node, currentWord, b, rk, row, col, direction, i,
                   SelectSeq(AZ, LAMBDA l : HasChild(gaddag, node, l)))
     ELSE IF HasChild(gaddag, node, rk[i])
          THEN traverseGADDAG(Child(node, rk[i]), Append(currentWord, rk[i]), b,
                              RemoveAt(rk, i), row, col, direction)
          ELSE <<>>)
    \o TryRack(node, currentWord, b, rk, row, col, direction, i + 1)

\* The loop over the letters already on the board, from position p on.
TryBoard(node, currentWord, b, rk, row, col, direction, p) ==
  LET r == IF direction = "horizontal" THEN row ELSE p
      c == IF direction = "horizontal" THEN p ELSE col
  IN IF p < BoardSize /\ b[r][c] # ""
     THEN IF HasChild(gaddag, node, b[r][c])
          THEN traverseGADDAG(Child(node, b[r][c]), Append(currentWord, b[r][c]),
                              b, rk,
                              IF direction = "horizontal" THEN row ELSE p + 1,
                              IF direction = "horizontal" THEN p + 1 ELSE col,
                              direction)
               \o TryBoard(node, currentWord, b, rk, row, col, direction, p + 1)
          ELSE <<>>
     ELSE <<>>

traverseGADDAG(node, currentWord, b, rk, row, col, direction) ==
  (IF node \in gaddag.terminal /\ Len(currentWord) > 0
      /\ canPlaceWord(b, currentWord, row, col, direction, rk)
   THEN <<currentWord>>
   ELSE <<>>)
  \o TryRack(node, currentWord, b, rk, row, col, direction, 1)
  \o TryBoard(node, currentWord, b, rk, row, col, direction,
              IF direction = "horizontal" THEN col ELSE row)

generateWordsFromPosition(b, rk, row, col, direction) ==
  traverseGADDAG(Root, <<>>, b, rk, row, col, direction)

\* leftLimit / topLimit: the first cell of the run of empty cells that ends
\* just before position p of the line through (row, col).
RECURSIVE Limit(_, _, _, _, _)
Limit(b, row, col, direction, p) ==
  IF p > 0 /\ (IF direction = "horizontal" THEN b[row][p - 1] ELSE b[p - 1][col]) = ""
  THEN Limit(b, row, col, direction, p - 1)
  ELSE p

RECURSIVE WordsFromStarts(_, _, _, _, _, _)
WordsFromStarts(b, rk, row, col, direction, start) ==
  IF start > (IF direction = "horizontal" THEN col ELSE row) THEN <<>>
  ELSE
    (IF direction = "horizontal"
     THEN generateWordsFromPosition(b, rk, row, start, direction)
     ELSE generateWordsFromPosition(b, rk, start, col, direction))
    \o WordsFromStarts(b, rk, row, col, direction, start + 1)

generateWordsWithGADDAG(b, rk, row, col, direction) ==
  WordsFromStarts(b, rk, row, col, direction,
                  Limit(b, row, col, direction,
                        IF direction = "horizontal" THEN col ELSE row))

(***************************************************************************)
(* createMove and calculateScore.                                          *)
(***************************************************************************)
NilMove == [nil |-> TRUE]
IsNil(m) == "nil" \in DOMAIN m

\* for startCol > 0 && board[row][startCol-1] != "" { startCol-- }
RECURSIVE RunStart(_, _, _, _, _)
RunStart(b, row, col, direction, p) ==
  IF p > 0 /\ (IF direction = "horizontal" THEN b[row][p - 1] ELSE b[p - 1][col]) # ""
  THEN RunStart(b, row, col, direction, p - 1)
  ELSE p

RECURSIVE SumScore(_, _)
SumScore(tiles, k) ==
  IF k > Len(tiles) THEN 0
  ELSE LetterScore(tiles[k].Letter) * LetterMult(tiles[k].Row, tiles[k].Col)
       + SumScore(tiles, k + 1)

RECURSIVE ProdWordMult(_, _)
ProdWordMult(tiles, k) ==
  IF k > Len(tiles) THEN 1
  ELSE WordMult(tiles[k].Row, tiles[k].Col) * ProdWordMult(tiles, k + 1)

\* Both branches of the code (horizontal, vertical) are the same loop.
calculateScore(b, tiles, startRow, startCol, direction) ==
  SumScore(tiles, 1) * ProdWordMult(tiles, 1)

\* The tile loop of createMove that keeps every rack tile it has used.
LayTileKeepRack(rackCopy, j) == rackCopy

\* rackCopy = append(rackCopy[:j], rackCopy[j+1:]...) after a tile is laid.
LayTile(rackCopy, j) == RemoveAt(rackCopy, j)

\* The tile loop of createMove from index i (0-based) on: the tiles, or
\* ok = FALSE where the code returns nil.
RECURSIVE CreateTiles(_, _, _, _, _, _, _, _)
CreateTiles(b, word, startRow, startCol, direction, rackCopy, i, tiles) ==
  IF i >= Len(word) THEN [ok |-> TRUE, tiles |-> tiles]
  ELSE
    LET r == CellRow(startRow, i, direction)
        c == CellCol(startCol, i, direction)
        letter == word[i + 1]
    IN IF (IF direction = "horizontal" THEN c ELSE r) >= BoardSize
       THEN [ok |-> FALSE, tiles |-> <<>>]
       ELSE IF b[r][c] = ""
            THEN LET j == FirstMatch(rackCopy, letter)
                 IN IF j = 0 THEN [ok |-> FALSE, tiles |-> <<>>]
                    ELSE CreateTiles(b, word, startRow, startCol, direction,
                           LayTile(rackCopy, j), i + 1,
                           Append(tiles, [Row |-> r, Col |-> c, Letter |-> letter,
                                          IsNew |-> TRUE,
                                          IsBlank |-> (rackCopy[j] = "?")]))
            ELSE CreateTiles(b, word, startRow, startCol, direction, rackCopy,
                             i + 1, tiles)

\* if len(tiles) == 0 { return nil }, left out.
NoTilesIsNilNever(tiles) == FALSE

\* if len(tiles) == 0 { return nil }
NoTilesIsNil(tiles) == Len(tiles) = 0

createMove(b, word, row, col, direction, rk) ==
  LET startRow == IF direction = "horizontal" THEN row
                  ELSE RunStart(b, row, col, direction, row)
      startCol == IF direction = "horizontal"
                  THEN RunStart(b, row, col, direction, col)
                  ELSE col
      res == CreateTiles(b, word, startRow, startCol, direction, rk, 0, <<>>)
  IN IF ~res.ok THEN NilMove
     ELSE IF NoTilesIsNil(res.tiles) THEN NilMove
     ELSE LET score == calculateScore(b, res.tiles, startRow, startCol, direction)
          IN [Word |-> word, Score |-> score, Tiles |-> res.tiles,
              Direction |-> direction, StartRow |-> startRow,
              StartCol |-> startCol, TotalValue |-> score]

(***************************************************************************)
(* generateMovesAtAnchor.                                                  *)
(***************************************************************************)
\* %d of a board coordinate.
Digits(n) ==
  LET d == <<"0","1","2","3","4","5","6","7","8","9">>
  IN IF n < 10 THEN <<d[n + 1]>> ELSE <<d[(n \div 10) + 1], d[(n % 10) + 1]>>

\* fmt.Sprintf("%s-%d,%d-%s", move.Word, move.StartRow, move.StartCol, move.Direction)
MoveKey(m) ==
  m.Word \o <<"-">> \o Digits(m.StartRow) \o <<",">> \o Digits(m.StartCol)
         \o <<"-">> \o <<m.Direction>>

\* The body of the loop over the words without the look-up of moveSet.
AddWordMoveAlways(b, rk, anchor, direction, word, acc) ==
  LET move == createMove(b, word, anchor.row, anchor.col, direction, rk)
  IN IF IsNil(move) THEN acc
     ELSE [moves |-> Append(acc.moves, move),
           moveSet |-> acc.moveSet \cup {MoveKey(move)}]

\* The body of the loop over the words: acc is [moves, moveSet].
AddWordMove(b, rk, anchor, direction, word, acc) ==
  LET move == createMove(b, word, anchor.row, anchor.col, direction, rk)
  IN IF IsNil(move) THEN acc
     ELSE IF MoveKey(move) \in acc.moveSet THEN acc
     ELSE [moves |-> Append(acc.moves, move),
           moveSet |-> acc.moveSet \cup {MoveKey(move)}]

\* for _, word := range words, over words[lo..hi] in order (the range is
\* halved to keep the evaluation shallow; the order of the words is kept).
RECURSIVE AddWordMoves(_, _, _, _, _, _, _, _)
AddWordMoves(b, rk, anchor, direction, words, lo, hi, acc) ==
  IF lo > hi THEN acc
  ELSE IF lo = hi THEN AddWordMove(b, rk, anchor, direction, words[lo], acc)
  ELSE LET mid == (lo + hi) \div 2
           first == AddWordMoves(b, rk, anchor, direction, words, lo, mid, acc)
       IN IF first.moves = acc.moves   \* no new move among words[lo..mid]
          THEN AddWordMoves(b, rk, anchor, direction, words, mid + 1, hi, acc)
          ELSE AddWordMoves(b, rk, anchor, direction, words, mid + 1, hi, first)

\* The body of the loop over the directions.
\* (getExistingWord is computed by the code and only printed.)
MovesInDirection(b, rk, anchor, direction, acc) ==
  LET words == generateWordsWithGADDAG(b, rk, anchor.row, anchor.col, direction)
  IN AddWordMoves(b, rk, anchor, direction, words, 1, Len(words), acc)

\* The moves returned for the anchor, and moveSet as the call leaves it:
\* for _, direction := range []string{"horizontal", "vertical"}.
generateMovesAtAnchor(b, rk, anchor, ms) ==
  MovesInDirection(b, rk, anchor, Directions[2],
    MovesInDirection(b, rk, anchor, Directions[1],
                     [moves |-> <<>>, moveSet |-> ms]))

(***************************************************************************)
(* findAnchors.                                                            *)
(***************************************************************************)
\* Only the four orthogonal neighbours.
isAnchorOrthogonal(b, row, col) ==
  \E dr \in -1..1, dc \in -1..1 :
     /\ (dr = 0) # (dc = 0)
     /\ row + dr >= 0 /\ row + dr < BoardSize
     /\ col + dc >= 0 /\ col + dc < BoardSize
     /\ b[row + dr][col + dc] # ""

isAnchor(b, row, col) ==
  \E dr \in -1..1, dc \in -1..1 :
     /\ ~(dr = 0 /\ dc = 0)
     /\ row + dr >= 0 /\ row + dr < BoardSize
     /\ col + dc >= 0 /\ col + dc < BoardSize
     /\ b[row + dr][col + dc] # ""

\* for col := 0; col < 15; col++, from col on.
RECURSIVE AnchorsInRow(_, _, _)
AnchorsInRow(b, row, col) ==
  IF col >= BoardSize THEN <<>>
  ELSE (IF b[row][col] = "" /\ isAnchor(b, row, col)
        THEN <<[row |-> row, col |-> col]>>
        ELSE <<>>)
       \o AnchorsInRow(b, row, col + 1)

\* for row := 0; row < 15; row++, from row on.
RECURSIVE AnchorsFrom(_, _)
AnchorsFrom(b, row) ==
  IF row >= BoardSize THEN <<>>
  ELSE AnchorsInRow(b, row, 0) \o AnchorsFrom(b, row + 1)

findAnchors(b) == AnchorsFrom(b, 0)

\* isEmpty of generateMoves.
isEmpty(b) == \A row \in Cells, col \in Cells : b[row][col] = ""

(***************************************************************************)
(* The rack of a request.                                                  *)
(***************************************************************************)
az == <<"a","b","c","d","e","f","g","h","i","j","k","l","m",
        "n","o","p","q","r","s","t","u","v","w","x","y","z">>

\* strings.ToUpper of a one-character tile.
ToUpper(tile) ==
  IF \E k \in 1..Len(az) : az[k] = tile
  THEN AZ[CHOOSE k \in 1..Len(az) : az[k] = tile]
  ELSE tile

\* rackArr of generateMoves.
RackArr(rk) == [i \in 1..Len(rk) |-> IF rk[i] = "*" THEN "?" ELSE ToUpper(rk[i])]

(***************************************************************************)
(* The inputs the model draws from.                                        *)
(***************************************************************************)
\* The word list of createBasicGADDAG, cut down to three short words.
WordList == << <<"A">>, <<"A", "H">>, <<"H", "A">> >>

\* The tiles of a request's letters: a lower-case letter, a blank and the
\* control symbol.
RawTiles == {"a", "*", "^"}

Racks == UNION {[1..n -> RawTiles] : n \in 0..MaxRack}

\* The cells a request's board may have occupied, and their letters.
BoardCells == {<<0, 1>>, <<0, 2>>, <<1, 1>>}
BoardSyms == {"A"}

BoardOf(f) ==
  [r \in Cells |-> [c \in Cells |->
     IF <<r, c>> \in DOMAIN f THEN f[<<r, c>>] ELSE ""]]

Boards ==
  {BoardOf(f) : f \in UNION {[S -> BoardSyms] :
                   S \in {T \in SUBSET BoardCells : Cardinality(T) <= MaxOccupied}}}

\* A cell of the grid as the JSON decoder hands it over ([][]interface{}):
\* a string, null, or a value of another type.
Str(s) == [kind |-> "string", str |-> s]
Null == [kind |-> "nil"]
Number == [kind |-> "number"]

\* normalizeBoard: a 15x15 board; a cell the grid does not have, a null and
\* a value that is no string become the empty cell.
normalizeBoard(raw) ==
  [i \in Cells |-> [j \in Cells |->
     IF i < Len(raw) /\ j < Len(raw[i + 1]) /\ raw[i + 1][j + 1].kind # "nil"
     THEN (IF raw[i + 1][j + 1].kind = "string" THEN raw[i + 1][j + 1].str ELSE "")
     ELSE ""]]

\* The grid a well-behaved client sends for board b.
RawOf(b) == [i \in 1..BoardSize |-> [j \in 1..BoardSize |-> Str(b[i - 1][j - 1])]]

\* Grids of another shape: no row at all, one row of three cells, and
\* sixteen rows of sixteen cells.
ShortGrid == << <<Str(""), Str("A"), Null>> >>
WideGrid ==
  [i \in 1..(BoardSize + 1) |-> [j \in 1..(BoardSize + 1) |->
     IF <<i, j>> \in {<<1, 2>>, <<BoardSize + 1, BoardSize + 1>>} THEN Str("A")
     ELSE IF <<i, j>> = <<2, 2>> THEN Number
     ELSE Str("")]]

RawBoards == {RawOf(b) : b \in Boards} \cup {<<>>, ShortGrid, WideGrid}

\* The anchors generateMoves searches on board b: the centre on an empty
\* board, findAnchors(b) otherwise (tabulated over the boards of the model).
SearchedAnchors ==
  [b \in Boards |-> IF isEmpty(b) THEN <<[row |-> Center, col |-> Center]>>
                    ELSE findAnchors(b)]

(***************************************************************************)
(* State machine.                                                          *)
(***************************************************************************)
\* moveSet as the previous request left it (a map that outlives the call).
KeptMoveSet == moveSet

\* moveSet := make(map[string]bool)
NewMoveSet == {}

\* No function is being called on its own.
NoCall == [fn |-> "none"]

\* The program before loadGADDAG, with no request being served.
InitProgram ==
  /\ gaddag = EmptyGADDAG
  /\ lexicon = {}
  /\ crossChecks = <<>>
  /\ pc = "build"
  /\ rawBoard = <<>>
  /\ board = EmptyBoard
  /\ rack = <<>>
  /\ rackArr = <<>>
  /\ anchors = <<>>
  /\ idx = 1
  /\ moves = <<>>
  /\ moveSet = {}
  /\ lastAnchorMoves = <<>>
  /\ response = <<>>

Init ==
  /\ InitProgram
  /\ call = NoCall
  /\ ret = NoCall

request == <<rawBoard, board, rack, rackArr, anchors, idx, moves, moveSet, lastAnchorMoves, response>>

\* The variables of the specifications of single functions.
unit == <<call, ret>>

\* addWordToGADDAG(word), called while the GADDAG is built.
AddWord(word) ==
  /\ pc = "build"
  /\ Cardinality(lexicon) < MaxWords
  /\ gaddag' = addWordToGADDAG(gaddag, word)
  /\ lexicon' = lexicon \cup {word}
  /\ UNCHANGED <<crossChecks, pc, request, unit>>

\* The end of createBasicGADDAG: buildCrossChecks, then main serves requests.
Serve ==
  /\ pc = "build"
  /\ crossChecks' = <<>>
  /\ pc' = "idle"
  /\ UNCHANGED <<gaddag, lexicon, request, unit>>

\* handleGenerateMoves up to the choice of the anchors to search in
\* generateMoves: the grid is normalized, never refused.
Request(raw, rk) ==
  /\ pc = "idle"
  /\ rawBoard' = raw
  /\ board' = normalizeBoard(raw)
  /\ rack' = rk
  /\ rackArr' = RackArr(rk)
  /\ anchors' = SearchedAnchors[normalizeBoard(raw)]
  /\ idx' = 1
  /\ moves' = <<>>
  /\ moveSet' = NewMoveSet
  /\ lastAnchorMoves' = <<>>
  /\ response' = <<>>
  /\ pc' = "gen"
  /\ UNCHANGED <<gaddag, lexicon, crossChecks, unit>>

\* One iteration of the loop over the anchors.
AtAnchor ==
  /\ pc = "gen"
  /\ idx <= Len(anchors)
  /\ LET res == generateMovesAtAnchor(board, rackArr, anchors[idx], moveSet)
     IN /\ moves' = moves \o res.moves
        /\ moveSet' = res.moveSet
        /\ lastAnchorMoves' = res.moves
  /\ idx' = idx + 1
  /\ UNCHANGED <<gaddag, lexicon, crossChecks, pc, rawBoard, board, rack, rackArr,
                 anchors, response, unit>>

\* return moves; handleGenerateMoves encodes them as the response.
Return ==
  /\ pc = "gen"
  /\ idx > Len(anchors)
  /\ response' = moves
  /\ pc' = "done"
  /\ UNCHANGED <<gaddag, lexicon, crossChecks, rawBoard, board, rack, rackArr,
                 anchors, idx, moves, moveSet, lastAnchorMoves, unit>>

\* The handler returns: the locals of the request are gone, the next request
\* makes its own.
Finish ==
  /\ pc = "done"
  /\ pc' = "idle"
  /\ rawBoard' = <<>>
  /\ board' = EmptyBoard
  /\ rack' = <<>>
  /\ rackArr' = <<>>
  /\ anchors' = <<>>
  /\ idx' = 1
  /\ moves' = <<>>
  /\ moveSet' = NewMoveSet
  /\ lastAnchorMoves' = <<>>
  /\ response' = <<>>
  /\ UNCHANGED <<gaddag, lexicon, crossChecks, unit>>

Next ==
  \/ \E k \in 1..Len(WordList) : k = Cardinality(lexicon) + 1 /\ AddWord(WordList[k])
  \/ Serve
  \/ \E raw \in RawBoards, rk \in Racks : Request(raw, rk)
  \/ AtAnchor
  \/ Return
  \/ Finish

Spec == Init /\ [][Next]_vars

(***************************************************************************)
(* Building the GADDAG from any list of words over two letters.            *)
(***************************************************************************)
MaxWordLen == 3

BuildLetters == {"A", "H"}

BuildWords == UNION {[1..n -> BuildLetters] : n \in 0..MaxWordLen}

NextBuild == \E word \in BuildWords : AddWord(word)

SpecBuild == Init /\ [][NextBuild]_vars

(***************************************************************************)
(* Helpers of the properties.                                              *)
(***************************************************************************)
Count(s, x) == Cardinality({i \in 1..Len(s) : s[i] = x})

\* The cells a move's word covers, by 0-based index of the letter.
MoveRow(m, i) == CellRow(m.StartRow, i, m.Direction)
MoveCol(m, i) == CellCol(m.StartCol, i, m.Direction)
MoveIdx(m) == 0..(Len(m.Word) - 1)

Covers(m, r, c) == \E i \in MoveIdx(m) : MoveRow(m, i) = r /\ MoveCol(m, i) = c

OnBoard(r, c) == r \in Cells /\ c \in Cells

TileSet(m) == Range(m.Tiles)

\* The board once the tiles of the move are laid.
BoardAfter(b, m) ==
  [r \in Cells |-> [c \in Cells |->
     IF \E t \in TileSet(m) : t.Row = r /\ t.Col = c
     THEN (CHOOSE t \in TileSet(m) : t.Row = r /\ t.Col = c).Letter
     ELSE b[r][c]]]

\* The maximal run of letters of board b through cell (r, c) along dir:
\* its first position along the line, and its letters.
Along(b, r, c, dir, p) == IF dir = "horizontal" THEN b[r][p] ELSE b[p][c]
Pos(r, c, dir) == IF dir = "horizontal" THEN c ELSE r

RunFirst(b, r, c, dir) ==
  CHOOSE p \in 0..Pos(r, c, dir) :
    /\ \A q \in p..Pos(r, c, dir) : Along(b, r, c, dir, q) # ""
    /\ (p = 0 \/ Along(b, r, c, dir, p - 1) = "")

RunLast(b, r, c, dir) ==
  CHOOSE p \in Pos(r, c, dir)..(BoardSize - 1) :
    /\ \A q \in Pos(r, c, dir)..p : Along(b, r, c, dir, q) # ""
    /\ (p = BoardSize - 1 \/ Along(b, r, c, dir, p + 1) = "")

RunWord(b, r, c, dir) ==
  LET first == RunFirst(b, r, c, dir)
      last == RunLast(b, r, c, dir)
  IN [k \in 1..(last - first + 1) |-> Along(b, r, c, dir, first + k - 1)]

Perpendicular(dir) == IF dir = "horizontal" THEN "vertical" ELSE "horizontal"

\* The tile has an occupied neighbour on board b along the axis dir.
HasNeighbourAlong(b, t, dir) ==
  \E d \in {-1, 1} :
    LET r == IF dir = "horizontal" THEN t.Row ELSE t.Row + d
        c == IF dir = "horizontal" THEN t.Col + d ELSE t.Col
    IN OnBoard(r, c) /\ b[r][c] # ""

\* The letters of word can all be drawn from the rack rk (a blank for any).
RECURSIVE Missing(_, _, _)
Missing(word, rk, k) ==
  IF k > Len(AZ) THEN 0
  ELSE (IF Count(word, AZ[k]) > Count(rk, AZ[k])
        THEN Count(word, AZ[k]) - Count(rk, AZ[k]) ELSE 0)
       + Missing(word, rk, k + 1)

CanDraw(word, rk) ==
  /\ Range(word) \subseteq Range(AZ)
  /\ Missing(word, rk, 1) <= Count(rk, "?")

Returned == IF pc = "done" THEN Range(response) ELSE {}

\* C1: on an empty board every lexicon word that can be drawn from the rack
\* is the Word of a returned move that covers the centre cell (7,7).
C1_LexiconWordThroughCentre ==
  (pc = "done" /\ isEmpty(board)) =>
    \A w \in lexicon :
      (Len(w) > 0 /\ CanDraw(w, rackArr)) =>
        \E m \in Returned : m.Word = w /\ Covers(m, Center, Center)

\* C2: for every returned move, the maximal run of letters along the move's
\* direction through its new tiles, read from the board after the tiles are
\* laid, is Move.Word starting at (StartRow, StartCol) and is a lexicon word.
C2_MainWordIsLexiconWord ==
  \A m \in Returned :
    /\ m.Word \in lexicon
    /\ \A t \in TileSet(m) :
         LET after == BoardAfter(board, m)
         IN /\ RunWord(after, t.Row, t.Col, m.Direction) = m.Word
            /\ RunFirst(after, t.Row, t.Col, m.Direction)
                 = Pos(m.StartRow, m.StartCol, m.Direction)

\* C3: for every returned move, the perpendicular run through each new tile
\* that has an occupied neighbour along the perpendicular axis is a lexicon
\* word.
C3_PerpendicularWordsInLexicon ==
  \A m \in Returned :
    \A t \in TileSet(m) :
      HasNeighbourAlong(board, t, Perpendicular(m.Direction)) =>
        RunWord(BoardAfter(board, m), t.Row, t.Col, Perpendicular(m.Direction))
          \in lexicon

\* C4: every returned move fits inside the board, its new tiles lie on cells
\* of the board that were empty, and at every occupied cell the word covers
\* the board letter is the word's letter at that index.
C4_FitsAndMatchesBoard ==
  \A m \in Returned :
    /\ \A i \in MoveIdx(m) : OnBoard(MoveRow(m, i), MoveCol(m, i))
    /\ \A t \in TileSet(m) : OnBoard(t.Row, t.Col) /\ board[t.Row][t.Col] = ""
    /\ \A i \in MoveIdx(m) :
         (OnBoard(MoveRow(m, i), MoveCol(m, i))
            /\ board[MoveRow(m, i)][MoveCol(m, i)] # "") =>
           board[MoveRow(m, i)][MoveCol(m, i)] = m.Word[i + 1]

\* The tiles of the move taken from blanks, and those that show letter l.
BlankTiles(m) == {k \in 1..Len(m.Tiles) : m.Tiles[k].IsBlank}
LetterTiles(m, l) == {k \in 1..Len(m.Tiles) : ~m.Tiles[k].IsBlank /\ m.Tiles[k].Letter = l}

\* C5: the new tiles of every move can be matched one-to-one with distinct
\* tiles of the rack, a blank tile with a blank and any other tile with a
\* rack tile of its letter: per letter and for the blanks, the move uses no
\* more tiles than the rack (as generateMoves reads it: upper case, a blank
\* written "?") holds.
C5_TilesComeFromRack ==
  \A k \in 1..Len(moves) :
    LET m == moves[k]
    IN /\ Cardinality(BlankTiles(m)) <= Count(rackArr, "?")
       /\ \A t \in TileSet(m) :
            ~t.IsBlank =>
              /\ t.Letter # "?"
              /\ Cardinality(LetterTiles(m, t.Letter)) <= Count(rackArr, t.Letter)
       /\ Len(m.Tiles) <= Len(rack)

\* A returned move that lays a blank and a tile of a letter of the rack.
C5_Witness ==
  \E m \in Returned :
    /\ BlankTiles(m) # {}
    /\ \E t \in TileSet(m) : ~t.IsBlank /\ t.Letter = "A"

\* The paths addWordToGADDAG is to mark for word w: reverse(w[0..i]), "^",
\* w[i..], for every split index i.
SplitPath(w, i) == Reverse(SubSeq(w, 1, i)) \o <<"^">> \o SubSeq(w, i + 1, Len(w))
SplitPaths(words) == {SplitPath(w, i) : <<w, i>> \in {x \in words \X (0..MaxWordLen) : x[2] <= Len(x[1])}}

Prefixes(p) == {SubSeq(p, 1, n) : n \in 0..Len(p)}

\* C6: after addWordToGADDAG has been applied to a list of words, the paths
\* from the root that end on a node with IsTerminal = true are exactly the
\* paths reverse(W[0..i]) ^ W[i..] of the inserted words W; each of them
\* crosses "^" exactly once; and the nodes are exactly the root and the
\* prefixes of those paths, each reached by one path only.
C6_TerminalIffSplitOfWord ==
  /\ gaddag.terminal = SplitPaths(lexicon)
  /\ \A p \in gaddag.terminal : Count(p, "^") = 1
  /\ gaddag.nodes = {Root} \cup UNION {Prefixes(p) : p \in SplitPaths(lexicon)}

\* Two words that share a first letter have been inserted.
C6_Witness ==
  /\ Cardinality(lexicon) = 2
  /\ \E v \in lexicon, w \in lexicon :
       v # w /\ Len(v) >= 2 /\ Len(w) >= 2 /\ v[1] = w[1]
  /\ \E p \in gaddag.terminal : Len(p) = MaxWordLen + 1

\* The occupied cells of a board, and the cells next to cell y (up to eight).
Occupied(b) == {x \in Cells \X Cells : b[x[1]][x[2]] # ""}
Abs(n) == IF n < 0 THEN -n ELSE n
Touches(x, y) ==
  /\ x # y
  /\ Abs(x[1] - y[1]) <= 1
  /\ Abs(x[2] - y[2]) <= 1
Around(y) ==
  {x \in ((y[1] - 1)..(y[1] + 1)) \X ((y[2] - 1)..(y[2] + 1)) :
     x # y /\ x[1] \in Cells /\ x[2] \in Cells}

AnchorCells == {<<anchors[k].row, anchors[k].col>> : k \in 1..Len(anchors)}

\* C7: the anchors searched are exactly the empty cells with an occupied cell
\* among their neighbours, each listed once, and the centre cell alone when
\* no cell of the board is occupied; the loop searches each of them.
C7_AnchorsAreEmptyCellsNextToTiles ==
  (pc \in {"gen", "done"}) =>
    LET occupied == Occupied(board)
    IN /\ Cardinality(AnchorCells) = Len(anchors)
       /\ AnchorCells =
            IF occupied = {}
            THEN {<<Center, Center>>}
            ELSE UNION {Around(y) : y \in occupied} \ occupied
       /\ idx \in 1..(Len(anchors) + 1)
       /\ (pc = "done" => idx = Len(anchors) + 1)

\* A request on a board with two occupied cells has searched all its anchors,
\* one of which touches a tile by a corner only.
C7_Witness ==
  /\ pc = "done"
  /\ Cardinality(Occupied(board)) = 2
  /\ idx = Len(anchors) + 1
  /\ \E x \in AnchorCells :
       \A y \in Occupied(board) : Touches(x, y) => (x[1] # y[1] /\ x[2] # y[2])

\* The anchor of the last call of generateMovesAtAnchor.
LastAnchor == anchors[idx - 1]

LaysTileAt(m, r, c) == \E t \in TileSet(m) : t.IsNew /\ t.Row = r /\ t.Col = c

\* C8: every move generateMovesAtAnchor returns for an anchor lays a new tile
\* on that anchor; on an empty board every move covers the centre cell.
C8_MovesCoverTheirAnchor ==
  /\ (pc \in {"gen", "done"} /\ idx > 1) =>
       \A k \in 1..Len(lastAnchorMoves) :
         /\ Len(lastAnchorMoves[k].Tiles) >= 1
         /\ LaysTileAt(lastAnchorMoves[k], LastAnchor.row, LastAnchor.col)
  /\ (pc \in {"gen", "done"} /\ isEmpty(board)) =>
       \A k \in 1..Len(moves) : Covers(moves[k], Center, Center)

\* A move returned for an anchor that starts on a tile before the anchor.
C8_Witness ==
  /\ pc = "gen"
  /\ idx > 1
  /\ \E k \in 1..Len(lastAnchorMoves) :
       LET m == lastAnchorMoves[k]
       IN /\ Pos(m.StartRow, m.StartCol, m.Direction)
               < Pos(LastAnchor.row, LastAnchor.col, m.Direction)
          /\ LaysTileAt(m, LastAnchor.row, LastAnchor.col)

\* The score of the main word of move m on board b: every letter the word
\* covers, a board letter at its face value and a new tile at its value
\* times the letter multiplier of its cell (zeroBlanks: a blank is worth 0),
\* times the word multipliers of the newly covered cells.
TileAt(m, r, c) == CHOOSE t \in TileSet(m) : t.Row = r /\ t.Col = c

RECURSIVE WordSum(_, _, _, _, _)
WordSum(b, m, i, withBoard, zeroBlanks) ==
  IF i >= Len(m.Word) THEN 0
  ELSE
    LET r == MoveRow(m, i)
        c == MoveCol(m, i)
    IN (IF b[r][c] # ""
        THEN (IF withBoard THEN LetterScore(b[r][c]) ELSE 0)
        ELSE IF zeroBlanks /\ TileAt(m, r, c).IsBlank THEN 0
             ELSE LetterScore(m.Word[i + 1]) * LetterMult(r, c))
       + WordSum(b, m, i + 1, withBoard, zeroBlanks)

RECURSIVE NewCellsWordMult(_, _, _)
NewCellsWordMult(b, m, i) ==
  IF i >= Len(m.Word) THEN 1
  ELSE (IF b[MoveRow(m, i)][MoveCol(m, i)] = ""
        THEN WordMult(MoveRow(m, i), MoveCol(m, i)) ELSE 1)
       * NewCellsWordMult(b, m, i + 1)

\* C9: a move with no blank tile, fewer than seven new tiles and no
\* perpendicular word has as Score the sum over every letter of the main
\* word (board letters at face value, new tiles at value times letter
\* multiplier) times the word multipliers of the newly covered cells.
C9_ScoreCountsEveryLetterOfTheWord ==
  \A m \in Returned :
    (/\ BlankTiles(m) = {}
     /\ Len(m.Tiles) < 7
     /\ \A t \in TileSet(m) :
          ~HasNeighbourAlong(board, t, Perpendicular(m.Direction)))
    => m.Score = WordSum(board, m, 0, TRUE, FALSE) * NewCellsWordMult(board, m, 0)

\* C10: a tile laid from a blank adds a letter value of zero to Move.Score:
\* the score is the one calculateScore gives with the blanks worth 0.
C10_BlankTilesScoreZero ==
  \A m \in Returned :
    m.Score = WordSum(board, m, 0, FALSE, TRUE) * NewCellsWordMult(board, m, 0)

(***************************************************************************)
(* createMove called on its own, on words of up to eight symbols.          *)
(***************************************************************************)
program == <<gaddag, lexicon, crossChecks, pc, request>>

\* A word as traverseGADDAG collects it, and its prefixes.
ScoreWord == <<"Q", "^", "A", "H", "A", "Z", "A", "H">>
ScoreWords == {SubSeq(ScoreWord, 1, n) : n \in 1..Len(ScoreWord)}

\* Racks holding the letters of the word, with and without blanks.
ScoreRacks ==
  { ScoreWord,
    <<"Q", "^", "A", "H", "A", "Z", "A">>,
    <<"?", "^", "A", "H", "?", "Z", "A">>,
    <<"A", "H", "^", "Q">> }

\* The anchors of the calls.
ScoreCells == {<<0, 0>>, <<0, 3>>, <<7, 7>>, <<14, 4>>}

CreateMoveCalls ==
  {[fn |-> "createMove", board |-> b, word |-> w, row |-> x[1], col |-> x[2],
    direction |-> Directions[d], rack |-> rk] :
     b \in Boards, w \in ScoreWords, x \in ScoreCells, d \in {1, 2}, rk \in ScoreRacks}

InitCreateMove ==
  /\ InitProgram
  /\ call \in CreateMoveCalls
  /\ ret = NoCall

\* createMove(board, word, row, col, direction, rack)
CallCreateMove ==
  /\ call.fn = "createMove"
  /\ ret = NoCall
  /\ ret' = [fn |-> "createMove",
             value |-> createMove(call.board, call.word, call.row, call.col,
                                  call.direction, call.rack)]
  /\ UNCHANGED <<program, call>>

SpecCreateMove == InitCreateMove /\ [][CallCreateMove]_vars

\* C11: a move that lays seven new tiles scores its word score (the letter
\* values of the new tiles times their letter multipliers, times the word
\* multipliers of their cells) plus 50; a move that lays fewer than seven
\* tiles scores its word score alone.
C11_SevenTilesScoreFiftyMore ==
  (ret # NoCall /\ ret.fn = "createMove" /\ ~IsNil(ret.value)) =>
    LET m == ret.value
    IN m.Score = WordSum(call.board, m, 0, FALSE, FALSE)
                   * NewCellsWordMult(call.board, m, 0)
                 + (IF Len(m.Tiles) = 7 THEN 50 ELSE 0)

\* The order of two words as strings: byte by byte ("^" comes after "Z"),
\* a proper prefix first.
SymbolRank(x) ==
  IF \E k \in 1..Len(AZ) : AZ[k] = x
  THEN CHOOSE k \in 1..Len(AZ) : AZ[k] = x
  ELSE Len(AZ) + 1

RECURSIVE WordLess(_, _, _)
WordLess(v, w, k) ==
  IF k > Len(v) THEN k <= Len(w)
  ELSE IF k > Len(w) THEN FALSE
  ELSE IF v[k] # w[k] THEN SymbolRank(v[k]) < SymbolRank(w[k])
  ELSE WordLess(v, w, k + 1)

\* Move m may stand before move n in a list ranked by score, then word,
\* then start position.
RankedBefore(m, n) ==
  \/ m.Score > n.Score
  \/ /\ m.Score = n.Score
     /\ \/ WordLess(m.Word, n.Word, 1)
        \/ /\ m.Word = n.Word
           /\ \/ m.StartRow < n.StartRow
              \/ m.StartRow = n.StartRow /\ m.StartCol <= n.StartCol

\* C12: the list of moves handed back to the caller is in non-increasing
\* order of Score, and moves of equal score are ordered by word, then by
\* start position.
C12_ResponseRankedByScore ==
  (pc = "done") =>
    \A i \in 1..(Len(response) - 1) : RankedBefore(response[i], response[i + 1])

\* The identity of a placement.
Placement(m) == <<m.Direction, m.StartRow, m.StartCol, m.Word>>

\* C13: no two moves of the list one generateMoves call builds and returns
\* have the same (Direction, StartRow, StartCol, Word).
C13_NoPlacementTwice ==
  /\ \A i \in 1..Len(moves), j \in 1..Len(moves) :
       i # j => Placement(moves[i]) # Placement(moves[j])
  /\ \A i \in 1..Len(response), j \in 1..Len(response) :
       i # j => Placement(response[i]) # Placement(response[j])

\* A rack with two copies of a tile, and an anchor whose list of words holds
\* a word twice that became a move, once.
C13_Witness ==
  /\ pc = "gen"
  /\ idx > 1
  /\ Len(lastAnchorMoves) > 0
  /\ Count(rackArr, "^") > 1
  /\ Count(rackArr, "?") > 1
  /\ LET words == generateWordsWithGADDAG(board, rackArr, LastAnchor.row,
                                           LastAnchor.col, "horizontal")
     IN \E i \in 1..Len(words), j \in 1..Len(words) :
          /\ i < j
          /\ words[i] = words[j]
          /\ Cardinality({k \in 1..Len(lastAnchorMoves) :
                            /\ lastAnchorMoves[k].Word = words[i]
                            /\ lastAnchorMoves[k].Direction = "horizontal"}) = 1

(***************************************************************************)
(* Requests that are repeated: a few boards and racks, and the answer to   *)
(* one earlier request kept for comparison.                                *)
(***************************************************************************)
RepeatRacks == {<<"^", "^", "*", "*">>, <<"*", "^", "a", "^">>, <<"a">>}

RepeatBoards ==
  {RawOf(EmptyBoard), RawOf(BoardOf(<<0, 1>> :> "A")), ShortGrid}

\* The handler returns, and the caller keeps the board, the rack and the
\* answer of the request.
FinishRemembered ==
  /\ pc = "done"
  /\ call' = [fn |-> "generateMoves", board |-> board, rack |-> rack]
  /\ ret' = [fn |-> "generateMoves", value |-> response]
  /\ pc' = "idle"
  /\ rawBoard' = <<>>
  /\ board' = EmptyBoard
  /\ rack' = <<>>
  /\ rackArr' = <<>>
  /\ anchors' = <<>>
  /\ idx' = 1
  /\ moves' = <<>>
  /\ moveSet' = NewMoveSet
  /\ lastAnchorMoves' = <<>>
  /\ response' = <<>>
  /\ UNCHANGED <<gaddag, lexicon, crossChecks>>

NextRepeat ==
  \/ \E k \in 1..Len(WordList) : k = Cardinality(lexicon) + 1 /\ AddWord(WordList[k])
  \/ Serve
  \/ \E raw \in RepeatBoards, rk \in RepeatRacks : Request(raw, rk)
  \/ AtAnchor
  \/ Return
  \/ FinishRemembered
  \/ Finish

SpecRepeat == Init /\ [][NextRepeat]_vars

MaxGenerated == 12

\* if req.TopN <= 0 { req.TopN = 10 }
DefaultTopN == 10

\* A field of the text of a library move, as the conversion looks at it:
\* its length, whether it holds a digit, whether it starts with one of
\* "score:", "tp:", "leave:", and whether it starts with ".....".
Field(text, long, digit, label, dots) ==
  [text |-> text, long |-> long, digit |-> digit, label |-> label, dots |-> dots]

\* The k-th move of the generator: its coordinates, the fields of its text
\* after "play word:", its score and its leave.
LibWords == << Field("CAT", TRUE, FALSE, FALSE, FALSE),
               Field(".....S", TRUE, FALSE, FALSE, TRUE),
               Field("A", FALSE, FALSE, FALSE, FALSE) >>

LibMove(k) ==
  [coords |-> <<"8", AZ[k]>>,
   fields |-> << Field(<<"8", AZ[k]>>, TRUE, TRUE, FALSE, FALSE),
                 LibWords[(k % 3) + 1],
                 Field("score:", TRUE, FALSE, TRUE, FALSE),
                 Field("leave:", TRUE, FALSE, TRUE, FALSE) >>,
   score |-> 100 - (k \div 2),
   leave |-> <<AZ[k]>>]

Generated(n) == [k \in 1..n |-> LibMove(k)]

\* The word the handler reads out of the text of a move: the first field of
\* two characters or more with no digit and no label, unless it starts with
\* five dots; "" when there is none.
RECURSIVE ExtractWord(_, _)
ExtractWord(fields, k) ==
  IF k > Len(fields) THEN ""
  ELSE IF fields[k].long /\ ~fields[k].digit /\ ~fields[k].label
       THEN (IF ~fields[k].dots THEN fields[k].text ELSE "")
       ELSE ExtractWord(fields, k + 1)

ResponseMove(m) ==
  [Position |-> m.coords, Word |-> ExtractWord(m.fields, 1),
   Score |-> m.score, Leave |-> m.leave]

\* The limit taken as given, also when it is not positive.
TopNAsGiven(topN) == topN

\* if req.TopN <= 0 { req.TopN = 10 }
TopNOrDefault(topN) == IF topN <= 0 THEN DefaultTopN ELSE topN

\* for i, m := range moves { if i >= req.TopN { break } ... append ... }
RECURSIVE ResponseMoves(_, _, _)
ResponseMoves(generated, topN, i) ==
  IF i >= Len(generated) \/ i >= topN THEN <<>>
  ELSE <<ResponseMove(generated[i + 1])>> \o ResponseMoves(generated, topN, i + 1)

generateMovesHandler(req, generated) ==
  IF req.rack = "" THEN [status |-> 400, error |-> "Rack is required"]
  ELSE IF req.rows # BoardSize THEN [status |-> 400, error |-> "Board must have 15 rows"]
  ELSE IF req.cols # BoardSize
       THEN [status |-> 400, error |-> "Each board row must have 15 columns"]
  ELSE [status |-> 200,
        Moves |-> ResponseMoves(generated, TopNOrDefault(req.topN), 0),
        Total |-> Len(generated)]

HandlerCalls ==
  {[fn |-> "generateMovesHandler",
    req |-> [rack |-> rk, rows |-> rows, cols |-> cols, topN |-> n],
    generated |-> Generated(g)] :
     rk \in {"", "CAT"}, rows \in {BoardSize - 1, BoardSize},
     cols \in {BoardSize, BoardSize + 1},
     n \in (-1)..(MaxGenerated + 1), g \in 0..MaxGenerated}

InitHandler ==
  /\ InitProgram
  /\ call \in HandlerCalls
  /\ ret = NoCall

CallHandler ==
  /\ call.fn = "generateMovesHandler"
  /\ ret = NoCall
  /\ ret' = [fn |-> "generateMovesHandler",
             value |-> generateMovesHandler(call.req, call.generated)]
  /\ UNCHANGED <<program, call>>

SpecHandler == InitHandler /\ [][CallHandler]_vars

Min(x, y) == IF x <= y THEN x ELSE y

WellShaped(raw) ==
  /\ Len(raw) = 15
  /\ \A i \in 1..Len(raw) : Len(raw[i]) = 15

\* C16: a grid that does not have exactly 15 rows of exactly 15 cells is
\* refused with a shape error, so no move is ever computed from it and no
\* move is returned for it.
C16_MisshapenGridIsRefused ==
  ~WellShaped(rawBoard) => (moves = <<>> /\ response = <<>>)

(***************************************************************************)
(* traverseGADDAG call by call: `call` is the frame of one call, and a     *)
(* step goes to one of the calls its body makes.  The calls start on any   *)
(* cell, also an occupied one next to the last row or column.              *)
(***************************************************************************)
\* The read of board[r][c]: outside 0..14 the Go runtime panics.
At(b, r, c) == IF r \in Cells /\ c \in Cells THEN b[r][c] ELSE "panic"

\* The loop over the board letters without its test of the position.
InRangeAlways(p) == TRUE

\* c < 15 (r < 15) in the loop over the board letters.
InRange(p) == p < BoardSize

Frame(node, word, b, rk, row, col, direction) ==
  [fn |-> "traverseGADDAG", node |-> node, word |-> word, board |-> b,
   rack |-> rk, row |-> row, col |-> col, direction |-> direction]

\* The position of a frame along its line, and the cell at position p of it.
FramePos(f) == IF f.direction = "horizontal" THEN f.col ELSE f.row
FrameRow(f, p) == IF f.direction = "horizontal" THEN f.row ELSE p
FrameCol(f, p) == IF f.direction = "horizontal" THEN p ELSE f.col

\* The calls of the loop over the rack.
RackCalls(f) ==
  UNION {
    IF f.rack[i] = "?"
    THEN {Frame(Child(f.node, l), Append(f.word, l), f.board, RemoveAt(f.rack, i),
                f.row, f.col, f.direction) :
            l \in {x \in Range(AZ) : HasChild(gaddag, f.node, x)}}
    ELSE IF HasChild(gaddag, f.node, f.rack[i])
         THEN {Frame(Child(f.node, f.rack[i]), Append(f.word, f.rack[i]), f.board,
                     RemoveAt(f.rack, i), f.row, f.col, f.direction)}
         ELSE {} : i \in 1..Len(f.rack)}

\* The positions the loop over the board letters reads, from p on.
RECURSIVE BoardReads(_, _)
BoardReads(f, p) ==
  IF InRange(p)
  THEN {p} \cup
       (IF At(f.board, FrameRow(f, p), FrameCol(f, p)) \notin {"", "panic"}
           /\ HasChild(gaddag, f.node, At(f.board, FrameRow(f, p), FrameCol(f, p)))
        THEN BoardReads(f, p + 1)
        ELSE {})
  ELSE {}

\* The calls of the loop over the board letters: one for each position it
\* reads a letter at that the node has a child for.
BoardCalls(f) ==
  {Frame(Child(f.node, f.board[FrameRow(f, p)][FrameCol(f, p)]),
         Append(f.word, f.board[FrameRow(f, p)][FrameCol(f, p)]),
         f.board, f.rack, FrameRow(f, p + 1), FrameCol(f, p + 1), f.direction) :
     p \in {q \in BoardReads(f, FramePos(f)) \cap Cells :
              /\ f.board[FrameRow(f, q)][FrameCol(f, q)] # ""
              /\ HasChild(gaddag, f.node, f.board[FrameRow(f, q)][FrameCol(f, q)])}}

\* The positions canPlaceWord reads when the frame stands on a terminal
\* node, from the i-th letter (0-based) of the word on.
RECURSIVE PlaceReads(_, _, _)
PlaceReads(f, rackCopy, i) ==
  IF i >= Len(f.word) THEN {}
  ELSE
    LET p == FramePos(f) + i
        letter == f.word[i + 1]
    IN IF p >= BoardSize THEN {}
       ELSE {p} \cup
            (IF At(f.board, FrameRow(f, p), FrameCol(f, p)) = ""
             THEN (IF FirstMatch(rackCopy, letter) = 0 THEN {}
                   ELSE PlaceReads(f, RemoveAt(rackCopy, FirstMatch(rackCopy, letter)),
                                   i + 1))
             ELSE IF At(f.board, FrameRow(f, p), FrameCol(f, p)) # letter THEN {}
                  ELSE PlaceReads(f, rackCopy, i + 1))

\* Every position of the line of the frame that one call reads.
FrameReads(f) ==
  BoardReads(f, FramePos(f))
  \cup (IF f.node \in gaddag.terminal /\ Len(f.word) > 0
        THEN PlaceReads(f, f.rack, 0) ELSE {})

\* The automaton of the word list, and boards with letters up to the last
\* row and column.
BuiltGADDAG ==
  addWordToGADDAG(addWordToGADDAG(addWordToGADDAG(EmptyGADDAG, WordList[1]),
                                  WordList[2]), WordList[3])

TraverseBoards ==
  {BoardOf(f) : f \in {(<<14, 13>> :> "A") @@ (<<14, 14>> :> "H"),
                       (<<13, 14>> :> "H") @@ (<<14, 14>> :> "A"),
                       (<<14, 12>> :> "A") @@ (<<14, 13>> :> "^") @@ (<<14, 14>> :> "H"),
                       (<<0, 1>> :> "A")}}

TraverseRacks == {<<"^", "?", "A">>, <<"?", "?">>, <<"H", "^">>, <<>>}

TraverseCells == {<<14, 12>>, <<14, 13>>, <<14, 14>>, <<13, 14>>, <<0, 0>>, <<0, 1>>}

InitTraverse ==
  /\ gaddag = BuiltGADDAG
  /\ lexicon = Range(WordList)
  /\ crossChecks = <<>>
  /\ pc = "idle"
  /\ rawBoard = <<>>
  /\ board = EmptyBoard
  /\ rack = <<>>
  /\ rackArr = <<>>
  /\ anchors = <<>>
  /\ idx = 1
  /\ moves = <<>>
  /\ moveSet = {}
  /\ lastAnchorMoves = <<>>
  /\ response = <<>>
  /\ call \in {Frame(Root, <<>>, b, rk, x[1], x[2], Directions[d]) :
                 b \in TraverseBoards, rk \in TraverseRacks,
                 x \in TraverseCells, d \in {1, 2}}
  /\ ret = NoCall

\* From the frame of a call to the frame of a call its body makes.
Descend ==
  /\ call.fn = "traverseGADDAG"
  /\ call' \in RackCalls(call) \cup BoardCalls(call)
  /\ UNCHANGED <<program, ret>>

SpecTraverse == InitTraverse /\ [][Descend]_vars

\* C17: every call of traverseGADDAG reads the board inside rows and columns
\* 0..14 only, with a position that is at most 15; and every call made by
\* its body has one rack tile less at the same position, or the same rack
\* at a later position, so that the recursion ends.
C17_TraversalStaysOnBoardAndEnds ==
  /\ [](call.fn = "traverseGADDAG" =>
          /\ FrameReads(call) \subseteq Cells
          /\ call.row \in 0..BoardSize
          /\ call.col \in 0..BoardSize)
  /\ [][\/ /\ Len(call'.rack) = Len(call.rack) - 1
           /\ FramePos(call') = FramePos(call)
        \/ /\ call'.rack = call.rack
           /\ FramePos(call') > FramePos(call)]_vars

\* A call whose position has advanced past the last column, on a terminal
\* node.
C17_Witness ==
  /\ call.fn = "traverseGADDAG"
  /\ call.col = BoardSize
  /\ call.node \in gaddag.terminal

\* C18: when neither a rack tile nor a board cell is the control symbol
\* "^", no word is collected for any anchor: generateMoves builds and
\* returns an empty list.
C18_NoControlSymbolNoMoves ==
  (pc \in {"gen", "done"}
     /\ "^" \notin Range(rackArr)
     /\ \A x \in Occupied(board) : board[x[1]][x[2]] # "^") =>
    /\ moves = <<>>
    /\ moveSet = {}
    /\ (pc = "done" => response = <<>>)

\* A request with a blank and a letter of a lexicon word on a board with a
\* letter has been answered with no move.
C18_Witness ==
  /\ pc = "done"
  /\ "^" \notin Range(rackArr)
  /\ "?" \in Range(rackArr)
  /\ "A" \in Range(rackArr)
  /\ Len(rackArr) >= 3
  /\ <<"A">> \in lexicon
  /\ Occupied(board) # {}
  /\ response = <<>>

(***************************************************************************)
(* canPlaceWord called on its own, on every ordering of small racks.       *)
(***************************************************************************)
PlaceWords == {<<"A", "H">>, <<"H", "A">>, <<"A">>, <<"A", "H", "A">>}

PlaceRacks == UNION {[1..n -> {"A", "H", "?"}] : n \in 0..3}

PlaceBoards == {EmptyBoard, BoardOf(<<0, 1>> :> "A"), BoardOf(<<0, 1>> :> "H")}

PlaceCells == {<<0, 0>>, <<0, 1>>, <<14, 14>>}

CanPlaceWordCalls ==
  {[fn |-> "canPlaceWord", board |-> b, word |-> w, row |-> x[1], col |-> x[2],
    direction |-> Directions[d], rack |-> rk] :
     b \in PlaceBoards, w \in PlaceWords, x \in PlaceCells, d \in {1, 2},
     rk \in PlaceRacks}

InitCanPlaceWord ==
  /\ InitProgram
  /\ call \in CanPlaceWordCalls
  /\ ret = NoCall

\* canPlaceWord(board, word, row, col, direction, rack)
CallCanPlaceWord ==
  /\ call.fn = "canPlaceWord"
  /\ ret = NoCall
  /\ ret' = [fn |-> "canPlaceWord",
             value |-> canPlaceWord(call.board, call.word, call.row, call.col,
                                    call.direction, call.rack)]
  /\ UNCHANGED <<program, call>>

SpecCanPlaceWord == InitCanPlaceWord /\ [][CallCanPlaceWord]_vars

\* The word of the call lies inside the board and agrees with the letters
\* of the board it covers.
CallFits ==
  \A i \in 0..(Len(call.word) - 1) :
    LET r == CellRow(call.row, i, call.direction)
        c == CellCol(call.col, i, call.direction)
    IN /\ OnBoard(r, c)
       /\ call.board[r][c] \in {"", call.word[i + 1]}

\* The indices (0-based) of the letters of the word that fall on empty
\* cells, and how many copies of letter l are needed there.
NeededAt ==
  {i \in 0..(Len(call.word) - 1) :
     call.board[CellRow(call.row, i, call.direction)]
               [CellCol(call.col, i, call.direction)] = ""}
Needed(l) == Cardinality({i \in NeededAt : call.word[i + 1] = l})

\* The needed letters can be matched one-to-one with rack tiles, a tile
\* being the letter or a blank: the total number of copies the rack lacks
\* is at most its number of blanks.
RECURSIVE Lacking(_)
Lacking(letters) ==
  IF letters = {} THEN 0
  ELSE LET l == CHOOSE x \in letters : TRUE
           lack == Needed(l) - Count(call.rack, l)
       IN (IF lack > 0 THEN lack ELSE 0) + Lacking(letters \ {l})

Matchable == Lacking(Range(call.word)) <= Count(call.rack, "?")

\* C19: canPlaceWord accepts a word that fits the board exactly when the
\* letters needed at its empty cells can be matched one-to-one with rack
\* tiles, each tile being that letter or a blank; so the outcome is the
\* same for every ordering of the tiles of the rack.
C19_AcceptsIffRackCanSupplyTheLetters ==
  (ret # NoCall /\ ret.fn = "canPlaceWord" /\ CallFits) =>
    (ret.value <=> Matchable)

====
